---- MODULE Spec2Model ----
(***************************************************************************)
(* State-machine model of the image stylizer front-end (src/index.tsx).    *)
(*                                                                         *)
(* The program is single threaded and event driven.  Every action below    *)
(* is one run-to-completion step of the event loop: a DOM event handler    *)
(* up to its first await, or the continuation that runs when a promise     *)
(* (file read, image decode, remote call) settles.                         *)
(***************************************************************************)
EXTENDS Integers, Sequences, FiniteSets, Bags, TLC

\* null, as a value that compares with images and palettes
Null == [null |-> TRUE]

(***************************************************************************)
(* Bounds of the model.                                                    *)
(***************************************************************************)
\* file reads plus image decodes that may be pending at the same time
MaxPending == 2
\* pixels of a buffer handed to the extractor
MaxPixels == 3
\* colorCount and quality arguments tried besides the defaults
MaxColorCount == 2
MaxQuality == 2

(***************************************************************************)
(* Strings are sequences of one-character strings, so that startsWith,     *)
(* toString(16) and padStart are computed and not assumed.                 *)
(***************************************************************************)
StartsWith(s, prefix) ==
  /\ Len(s) >= Len(prefix)
  /\ SubSeq(s, 1, Len(prefix)) = prefix

ImagePrefix == <<"i", "m", "a", "g", "e", "/">>
MimePng     == ImagePrefix \o <<"p", "n", "g">>
MimeJpeg    == ImagePrefix \o <<"j", "p", "e", "g">>
MimeText    == <<"t", "e", "x", "t", "/", "p", "l", "a", "i", "n">>

HexDigits ==
  <<"0", "1", "2", "3", "4", "5", "6", "7", "8", "9", "a", "b", "c", "d", "e", "f">>

\* Number.prototype.toString(16) of a non-negative integer
RECURSIVE ToString16(_)
ToString16(n) ==
  IF n < 16 THEN <<HexDigits[n + 1]>>
  ELSE ToString16(n \div 16) \o <<HexDigits[(n % 16) + 1]>>

\* the digits left as toString gives them
PadStart2None(s) == s

\* String.prototype.padStart(2, '0')
PadStart2(s) == IF Len(s) >= 2 THEN s ELSE [i \in 1..(2 - Len(s)) |-> "0"] \o s

\* a rounding that always goes past the quotient
MathRoundDivUp(c, n) == (c \div n) + 1

\* Math.round(c / n) for integers c >= 0, n > 0: halves round up
MathRoundDiv(c, n) == (2 * c + n) \div (2 * n)

(***************************************************************************)
(* extractDominantColors, the part that runs in img.onload on the decoded  *)
(* RGBA bytes (data is the flat byte sequence, 1-based here).              *)
(***************************************************************************)
bucketSize == 32
\* a threshold that also drops the pixels with alpha 125
AlphaThresholdAbove == 125 + 1
AlphaThreshold == 125
DefaultColorCount == 5
DefaultQuality == 10

BucketKey(r, g, b) ==
  <<MathRoundDiv(r, bucketSize), MathRoundDiv(g, bucketSize), MathRoundDiv(b, bucketSize)>>

\* index of the bucket with this key in colorMap, 0 when absent
KeyIndex(colorMap, key) ==
  LET hits == {k \in 1..Len(colorMap) : colorMap[k].key = key}
  IN  IF hits = {} THEN 0 ELSE CHOOSE k \in hits : TRUE

\* one iteration of the scan loop for the pixel whose bytes start at offset i
AddSample(colorMap, data, i) ==
  LET r == data[i + 1]
      g == data[i + 2]
      b == data[i + 3]
      a == data[i + 4]
      key == BucketKey(r, g, b)
      at == KeyIndex(colorMap, key)
      withKey == IF at = 0
                   THEN Append(colorMap, [key |-> key, color |-> <<0, 0, 0>>, count |-> 0])
                   ELSE colorMap
      k == IF at = 0 THEN Len(withKey) ELSE at
      old == withKey[k]
  IN  IF a < AlphaThreshold
        THEN colorMap
        ELSE [withKey EXCEPT ![k] =
                [key   |-> old.key,
                 color |-> <<old.color[1] + r, old.color[2] + g, old.color[3] + b>>,
                 count |-> old.count + 1]]

\* for (let i = 0; i < data.length; i += 4 * quality): the test and the step
InBuffer(data, i) == i < Len(data)
\* a step of one pixel whatever the quality
NextOffsetOnePixel(i, quality) == i + 4
NextOffset(i, quality) == i + 4 * quality

\* the values i takes in the loop when it is entered with this i
RECURSIVE SampleOffsets(_, _, _)
SampleOffsets(data, i, quality) ==
  IF InBuffer(data, i)
    THEN <<i>> \o SampleOffsets(data, NextOffset(i, quality), quality)
    ELSE <<>>

\* the loop body run for each of these offsets in turn
RECURSIVE ScanSamples(_, _, _)
ScanSamples(colorMap, data, offsets) ==
  IF offsets = <<>> THEN colorMap
  ELSE ScanSamples(AddSample(colorMap, data, Head(offsets)), data, Tail(offsets))

ScanLoop(colorMap, data, i, quality) ==
  ScanSamples(colorMap, data, SampleOffsets(data, i, quality))

\* Array.prototype.sort((a, b) => b.count - a.count): stable, descending count
RECURSIVE InsertByCount(_, _)
InsertByCount(sorted, bucket) ==
  IF sorted = <<>> THEN <<bucket>>
  ELSE IF sorted[Len(sorted)].count >= bucket.count
         THEN Append(sorted, bucket)
         ELSE Append(InsertByCount(SubSeq(sorted, 1, Len(sorted) - 1), bucket),
                     sorted[Len(sorted)])

\* the buckets left in the order of Object.values
SortBucketsUnsorted(buckets) == buckets

RECURSIVE SortBuckets(_)
SortBuckets(buckets) ==
  IF buckets = <<>> THEN <<>>
  ELSE InsertByCount(SortBuckets(SubSeq(buckets, 1, Len(buckets) - 1)),
                     buckets[Len(buckets)])

\* a palette taken without slice
Slice0Unbounded(s, n) == s

\* Array.prototype.slice(0, n)
Slice0(s, n) == SubSeq(s, 1, IF n < Len(s) THEN n ELSE Len(s))

BucketHex(bucket) ==
  LET avg == [c \in 1..3 |-> MathRoundDiv(bucket.color[c], bucket.count)]
  IN  <<"#">> \o PadStart2(ToString16(avg[1]))
              \o PadStart2(ToString16(avg[2]))
              \o PadStart2(ToString16(avg[3]))

\* Object.values(colorMap).sort(...).slice(0, colorCount).map(...)
PaletteOf(colorMap, colorCount) ==
  LET sortedBuckets == SortBuckets(colorMap)
      top == Slice0(sortedBuckets, colorCount)
  IN  [k \in 1..Len(top) |-> BucketHex(top[k])]

DominantColors(data, colorCount, quality) ==
  PaletteOf(ScanLoop(<<>>, data, 0, quality), colorCount)

(***************************************************************************)
(* The files the user can pick, and what the browser makes of them.        *)
(* A file is its declared type and its content; the content is what        *)
(* fileToBase64 yields.  RasterOf is the browser's decoder: the RGBA bytes *)
(* of a content, or <<>> when the content does not decode (img.onerror).   *)
(***************************************************************************)
fileA   == [type |-> MimePng,  content |-> "AAAA"]
fileB   == [type |-> MimeJpeg, content |-> "BBBB"]
fileBad == [type |-> MimePng,  content |-> "XXXX"]
fileT   == [type |-> MimeText, content |-> "TTTT"]

\* files offered to the content slot and to the style slot
ContentFiles == {fileB, fileT}
StyleFiles   == {fileA, fileBad, fileT}
FilesFor(type) == IF type = "content" THEN ContentFiles ELSE StyleFiles

Red   == <<255, 0, 0, 255>>
Blue  == <<0, 0, 255, 255>>
Clay  == <<200, 100, 50, 255>>

\* 21 pixels, red except the last one: the default stride samples 0, 10, 20
RasterA == [i \in 1..84 |-> IF (i - 1) \div 4 = 20 THEN Blue[((i - 1) % 4) + 1]
                                                   ELSE Red[((i - 1) % 4) + 1]]
\* one pixel
RasterB == Clay

RasterOf(base64) ==
  CASE base64 = "AAAA" -> RasterA
    [] base64 = "BBBB" -> RasterB
    [] OTHER -> <<>>

Decodes(imageData) == RasterOf(imageData.base64) # <<>>

\* the palette extractDominantColors resolves with for a decodable image
extractDominantColors(imageData) ==
  [colors |-> DominantColors(RasterOf(imageData.base64), DefaultColorCount, DefaultQuality)]

\* `data:${mimeType};base64,${base64}`; EmptySrc is the src ''
EmptySrc == <<>>
DataUrl(imageData) == <<"data:", imageData.mimeType, ";base64,", imageData.base64>>

(***************************************************************************)
(* Remote responses: a list of candidates, each a list of parts; a part is *)
(* text or carries inlineData {data, mimeType}.                            *)
(***************************************************************************)
TextPart == [text |-> "t"]
Inline(data, mimeType) == [inlineData |-> [data |-> data, mimeType |-> mimeType]]
Image1 == Inline("GGG1", MimePng)
Image2 == Inline("GGG2", MimeJpeg)

\* the responses the remote service gives in the model
Responses ==
  { <<>>,                               \* no candidate
    << <<>> >>,                         \* a candidate without parts
    << <<TextPart>> >>,                 \* text only
    << <<Image1>> >>,
    << <<Image2>> >>,
    << <<TextPart, Image1>> >>,         \* text before the image
    << <<Image1, TextPart>> >>,
    << <<Image1, Image2>> >>,           \* two images
    << <<Image2, Image1>> >>,
    << <<TextPart>>, <<Image1>> >>,     \* an image in the second candidate only
    << <<>>, <<Image2>> >>,
    << <<Image1>>, <<Image2>> >> }      \* an image in both candidates

HasInlineData(part) == "inlineData" \in DOMAIN part

\* response.candidates?.[0]?.content.parts ?? []
FirstCandidateParts(response) == IF Len(response) = 0 THEN <<>> ELSE response[1]

\* a loop without its break: the last part with inlineData wins
RECURSIVE FindLastImage(_, _)
FindLastImage(parts, k) ==
  IF k > Len(parts) THEN Null
  ELSE LET later == FindLastImage(parts, k + 1)
       IN  IF later # Null THEN later
           ELSE IF HasInlineData(parts[k])
                  THEN [base64 |-> parts[k].inlineData.data,
                        mimeType |-> parts[k].inlineData.mimeType]
                  ELSE Null

\* the for loop over the parts: the image of the first part with inlineData,
\* Null when the loop ends with foundImage = false
RECURSIVE FindImage(_, _)
FindImage(parts, k) ==
  IF k > Len(parts) THEN Null
  ELSE IF HasInlineData(parts[k])
         THEN [base64 |-> parts[k].inlineData.data,
               mimeType |-> parts[k].inlineData.mimeType]
         ELSE FindImage(parts, k + 1)

(***************************************************************************)
(* State.                                                                  *)
(***************************************************************************)
VARIABLES
  contentImage,        \* Null or [base64, mimeType]
  styleImage,          \* Null or [base64, mimeType]
  resultImageData,     \* Null or [base64, mimeType]
  styleColorPalette,   \* Null or [colors |-> a sequence of hex colors]
  isLoading,
  selectedEnhancer,
  selectedAspectRatio,
  dom,                 \* the properties of the page's elements the code writes
  reads,               \* bag of pending fileToBase64 promises: [file, type]
  extractions,         \* bag of images whose decode (img.onload/onerror) is pending
  requests,            \* bag of outstanding generateContent calls
  event,               \* the last step that handled a file, a clear or a remote
                       \* operation, and the alert it raised
  canvas               \* one call of extractDominantColors on a decoded buffer:
                       \* its arguments, its position and its locals

app == <<contentImage, styleImage, resultImageData, styleColorPalette, isLoading,
         selectedEnhancer, selectedAspectRatio>>
vars == <<contentImage, styleImage, resultImageData, styleColorPalette, isLoading,
          selectedEnhancer, selectedAspectRatio, dom, reads, extractions, requests,
          event, canvas>>

\* the variables of the page and its handlers
page == <<contentImage, styleImage, resultImageData, styleColorPalette, isLoading,
          selectedEnhancer, selectedAspectRatio, dom, reads, extractions, requests,
          event>>

Ev(step, alert) == [step |-> step, alert |-> alert]
NoAlert == ""

Pending == BagCardinality(reads) + BagCardinality(extractions)

(***************************************************************************)
(* Helpers that write the page.  Each takes the page and the values of the *)
(* module variables at the time of the call, and gives the page after it.  *)
(***************************************************************************)
\* button flags computed from the images alone, without isLoading
updateButtonStatesIgnoringBusy(d, content, style, result, palette, loading) ==
  [d EXCEPT !.generateBtnDisabled = (content = Null) \/ (style = Null),
            !.upscaleBtnDisabled = (result = Null),
            !.saveBtnDisabled = (result = Null),
            !.applyColorBtnDisabled = (result = Null) \/ (palette = Null)]

updateButtonStates(d, content, style, result, palette, loading) ==
  [d EXCEPT !.generateBtnDisabled = (content = Null) \/ (style = Null) \/ loading,
            !.upscaleBtnDisabled = (result = Null) \/ loading,
            !.saveBtnDisabled = (result = Null) \/ loading,
            !.applyColorBtnDisabled = (result = Null) \/ (palette = Null) \/ loading]

updateColorSectionVisibility(d, result, palette) ==
  [d EXCEPT !.colorSectionDisplay =
     IF result # Null /\ palette # Null THEN "block" ELSE "none"]

updateColorPaletteUI(d, palette) ==
  [d EXCEPT !.colorPaletteDisplay = IF palette # Null THEN palette.colors ELSE <<>>]

\* the page writes of setLoading; the caller sets isLoading' = loading
setLoading(d, loading, message, content, style, result, palette) ==
  LET d1 == [d EXCEPT !.loaderDisplay = IF loading THEN "flex" ELSE "none",
                      !.loaderText = message]
      d2 == IF loading
              THEN [d1 EXCEPT !.resultImageDisplay = "none",
                              !.resultPlaceholderDisplay = "none"]
              ELSE d1
  IN  updateButtonStates(d2, content, style, result, palette, loading)

DefaultMessage == "Generating..."

(***************************************************************************)
(* The values the user can give the option controls.                       *)
(***************************************************************************)
EnhancerChoices == {""}
AspectRatioChoices == {"9:16"}
SliderChoices == {"50"}

\* parseInt(value, 10) of the slider values above
ParseInt(value) == CASE value = "50" -> 50 [] value = "80" -> 80 [] OTHER -> 0

\* `${value}%`
Percent(value) == <<value, "%">>

\* selectedAspectRatio.replace(':', ' / ')
AspectCss(ratio) == CASE ratio = "9:16" -> "9 / 16" [] ratio = "1:1" -> "1 / 1" [] OTHER -> ratio

(***************************************************************************)
(* Initial state: the module-level initialisers, and the page as loaded.   *)
(* The script writes no button flag while the page loads, so the disabled  *)
(* flags start as the page's markup has them (all set, or none); inline    *)
(* display styles start unset.                                             *)
(***************************************************************************)
Unset == ""

InitDom(disabled) ==
  [contentPreviewSrc |-> EmptySrc, stylePreviewSrc |-> EmptySrc,
   contentHasImage |-> FALSE, styleHasImage |-> FALSE,
   resultImageSrc |-> EmptySrc, resultImageDisplay |-> Unset,
   resultPlaceholderDisplay |-> Unset,
   loaderDisplay |-> Unset, loaderText |-> Unset,
   colorSectionDisplay |-> Unset, colorPaletteDisplay |-> <<>>,
   generateBtnDisabled |-> disabled, upscaleBtnDisabled |-> disabled,
   saveBtnDisabled |-> disabled, applyColorBtnDisabled |-> disabled,
   strengthSlider |-> "50", strengthValue |-> Percent("50"),
   colorIntensitySlider |-> "50", colorIntensityValue |-> Percent("50"),
   resultAreaAspectRatio |-> AspectCss("9:16")]

\* a call of extractDominantColors(data, colorCount, quality) at a position
\* (i, colorMap, dominantColors are the locals; sampled keeps the offsets the
\* loop body has run for)
Canvas(pc, data, colorCount, quality, i, sampled, colorMap, dominantColors) ==
  [pc |-> pc, data |-> data, colorCount |-> colorCount, quality |-> quality,
   i |-> i, sampled |-> sampled, colorMap |-> colorMap,
   dominantColors |-> dominantColors]

\* no buffer under inspection
IdleCanvas ==
  Canvas("idle", <<>>, DefaultColorCount, DefaultQuality, 0, <<>>, <<>>, <<>>)

PageInit(disabled) ==
  /\ contentImage = Null
  /\ styleImage = Null
  /\ resultImageData = Null
  /\ styleColorPalette = Null
  /\ isLoading = FALSE
  /\ selectedEnhancer = ""
  /\ selectedAspectRatio = "9:16"
  /\ dom = InitDom(disabled)
  /\ reads = EmptyBag
  /\ extractions = EmptyBag
  /\ requests = EmptyBag
  /\ event = Ev("DOMContentLoaded", NoAlert)

Init ==
  /\ \E disabled \in BOOLEAN : PageInit(disabled)
  /\ canvas = IdleCanvas

(***************************************************************************)
(* processFile: the synchronous part, up to `await fileToBase64(file)`.    *)
(***************************************************************************)
\* a check that lets every file through
IsImageFileAlways(file) == TRUE

IsImageFile(file) == StartsWith(file.type, ImagePrefix)

processFile(file, type) ==
  IF ~IsImageFile(file)
    THEN /\ event' = Ev("processFile", "Please select a valid image file.")
         /\ UNCHANGED <<app, dom, reads, extractions, requests>>
    ELSE /\ Pending < MaxPending
         /\ reads' = reads (+) SetToBag({[file |-> file, type |-> type]})
         /\ event' = Ev("processFile", NoAlert)
         /\ UNCHANGED <<app, dom, extractions, requests>>

(***************************************************************************)
(* processFile: the continuation after fileToBase64 settles.               *)
(***************************************************************************)
ImageDataOf(file) == [base64 |-> file.content, mimeType |-> file.type]

processFileLoaded(rd) ==
  LET imageData == ImageDataOf(rd.file)
  IN  /\ reads' = reads (-) SetToBag({rd})
      /\ IF rd.type = "content"
           THEN /\ contentImage' = imageData
                /\ dom' = updateButtonStates(
                            [dom EXCEPT !.contentPreviewSrc = DataUrl(imageData),
                                        !.contentHasImage = TRUE],
                            imageData, styleImage, resultImageData,
                            styleColorPalette, isLoading)
                /\ UNCHANGED <<styleImage, extractions>>
           ELSE /\ styleImage' = imageData
                /\ extractions' = extractions (+) SetToBag({imageData})
                /\ dom' = updateButtonStates(
                            [dom EXCEPT !.stylePreviewSrc = DataUrl(imageData),
                                        !.styleHasImage = TRUE],
                            contentImage, imageData, resultImageData,
                            styleColorPalette, isLoading)
                /\ UNCHANGED contentImage
      /\ event' = Ev("processFileLoaded", NoAlert)
      /\ UNCHANGED <<resultImageData, styleColorPalette, isLoading,
                     selectedEnhancer, selectedAspectRatio, requests>>

\* reader.onerror: the catch block of processFile
processFileError(rd) ==
  /\ reads' = reads (-) SetToBag({rd})
  /\ event' = Ev("processFileError", "Error processing file. Please try again.")
  /\ UNCHANGED <<app, dom, extractions, requests>>

(***************************************************************************)
(* extractDominantColors settles: the .then and .catch of processFile.     *)
(***************************************************************************)
extractionResolved(imageData) ==
  LET palette == extractDominantColors(imageData)
  IN  /\ Decodes(imageData)
      /\ extractions' = extractions (-) SetToBag({imageData})
      /\ styleColorPalette' = palette
      /\ dom' = updateColorSectionVisibility(
                  updateButtonStates(updateColorPaletteUI(dom, palette),
                                     contentImage, styleImage, resultImageData,
                                     palette, isLoading),
                  resultImageData, palette)
      /\ event' = Ev("extractionResolved", NoAlert)
      /\ UNCHANGED <<contentImage, styleImage, resultImageData, isLoading,
                     selectedEnhancer, selectedAspectRatio, reads, requests>>

extractionRejected(imageData) ==
  /\ ~Decodes(imageData)
  /\ extractions' = extractions (-) SetToBag({imageData})
  /\ event' = Ev("extractionRejected", "Could not extract colors from style image.")
  /\ UNCHANGED <<app, dom, reads, requests>>

(***************************************************************************)
(* clearImage, as a function of the state it reads and writes, so that     *)
(* handleClearAll can call it twice.                                       *)
(***************************************************************************)
Snapshot ==
  [contentImage |-> contentImage, styleImage |-> styleImage,
   resultImageData |-> resultImageData, styleColorPalette |-> styleColorPalette,
   dom |-> dom]

ClearImage(type, st) ==
  LET s1 == IF type = "content"
              THEN [st EXCEPT !.contentImage = Null]
              ELSE [st EXCEPT !.styleImage = Null,
                              !.styleColorPalette = Null,
                              !.dom = updateColorPaletteUI(st.dom, Null)]
      d1 == IF type = "content"
              THEN [s1.dom EXCEPT !.contentPreviewSrc = EmptySrc, !.contentHasImage = FALSE]
              ELSE [s1.dom EXCEPT !.stylePreviewSrc = EmptySrc, !.styleHasImage = FALSE]
      d2 == [d1 EXCEPT !.resultImageSrc = EmptySrc,
                       !.resultImageDisplay = "none",
                       !.resultPlaceholderDisplay = "flex"]
      d3 == updateColorSectionVisibility(d2, Null, s1.styleColorPalette)
      d4 == updateButtonStates(d3, s1.contentImage, s1.styleImage, Null,
                               s1.styleColorPalette, isLoading)
  IN  [s1 EXCEPT !.resultImageData = Null, !.dom = d4]

Store(st) ==
  /\ contentImage' = st.contentImage
  /\ styleImage' = st.styleImage
  /\ resultImageData' = st.resultImageData
  /\ styleColorPalette' = st.styleColorPalette
  /\ dom' = st.dom

\* a clear that also gives the page back to the user
clearImageResettingBusy(type) ==
  /\ Store(ClearImage(type, Snapshot))
  /\ isLoading' = FALSE
  /\ event' = Ev("clearImage", NoAlert)
  /\ UNCHANGED <<selectedEnhancer, selectedAspectRatio, reads, extractions, requests>>

clearImage(type) ==
  /\ Store(ClearImage(type, Snapshot))
  /\ event' = Ev("clearImage", NoAlert)
  /\ UNCHANGED <<isLoading, selectedEnhancer, selectedAspectRatio,
                 reads, extractions, requests>>

\* a clear-all that empties both slots and leaves the controls as they are
handleClearAllInputsOnly ==
  /\ Store(ClearImage("style", ClearImage("content", Snapshot)))
  /\ event' = Ev("handleClearAll", NoAlert)
  /\ UNCHANGED <<isLoading, selectedEnhancer, selectedAspectRatio,
                 reads, extractions, requests>>

handleClearAll ==
  LET st == ClearImage("style", ClearImage("content", Snapshot))
  IN  /\ Store([st EXCEPT !.dom =
                  [st.dom EXCEPT !.strengthSlider = "50",
                                 !.strengthValue = Percent("50"),
                                 !.colorIntensitySlider = "50",
                                 !.colorIntensityValue = Percent("50"),
                                 !.resultAreaAspectRatio = AspectCss("9:16")]])
      /\ selectedEnhancer' = ""
      /\ selectedAspectRatio' = "9:16"
      /\ event' = Ev("handleClearAll", NoAlert)
      /\ UNCHANGED <<isLoading, reads, extractions, requests>>

(***************************************************************************)
(* The option controls' listeners.                                         *)
(***************************************************************************)
strengthSliderInput(value) ==
  /\ dom' = [dom EXCEPT !.strengthSlider = value, !.strengthValue = Percent(value)]
  /\ UNCHANGED <<app, reads, extractions, requests, event>>

colorIntensitySliderInput(value) ==
  /\ dom' = [dom EXCEPT !.colorIntensitySlider = value,
                        !.colorIntensityValue = Percent(value)]
  /\ UNCHANGED <<app, reads, extractions, requests, event>>

enhancerSelectChange(value) ==
  /\ selectedEnhancer' = value
  /\ UNCHANGED <<contentImage, styleImage, resultImageData, styleColorPalette,
                 isLoading, selectedAspectRatio, dom, reads, extractions, requests,
                 event>>

aspectRatioSelectChange(value) ==
  /\ selectedAspectRatio' = value
  /\ dom' = [dom EXCEPT !.resultAreaAspectRatio = AspectCss(value)]
  /\ UNCHANGED <<contentImage, styleImage, resultImageData, styleColorPalette,
                 isLoading, selectedEnhancer, reads, extractions, requests, event>>

(***************************************************************************)
(* The prompts.  A prompt is kept as the choices that build its text.      *)
(***************************************************************************)
StrengthInstruction(strength) ==
  IF strength <= 25 THEN "very subtle influence"
  ELSE IF strength <= 50 THEN "balanced blend"
  ELSE IF strength <= 75 THEN "style dominant"
  ELSE "style as strong as possible"

GeneratePrompt(enhancer, aspectRatio, strength) ==
  [task |-> IF enhancer = "Ghibli" THEN "Ghibli" ELSE "ink art",
   strengthInstruction |-> StrengthInstruction(strength),
   infuse |-> IF enhancer # "Ghibli" /\ enhancer # "" THEN enhancer ELSE "",
   aspectRatio |-> aspectRatio]

ApplyColorPrompt(palette, intensity) ==
  [task |-> "adjust colors", palette |-> palette.colors, intensity |-> intensity]

UpscalePrompt == [task |-> "upscale"]

\* an outstanding generateContent call: the handler that awaits it and what it
\* sent; before is resultImageData as the handler found it when it was invoked
Request(op, images, prompt, before) ==
  [op |-> op, images |-> images, prompt |-> prompt, before |-> before]

(***************************************************************************)
(* handleGenerate, handleApplyColor, handleUpscale: the synchronous part,  *)
(* up to `await ai.models.generateContent(...)`.                           *)
(***************************************************************************)
\* handleGenerate without the busy check
GenerateBlockedIgnoringBusy == contentImage = Null \/ styleImage = Null

GenerateBlocked == contentImage = Null \/ styleImage = Null \/ isLoading
ApplyColorBlocked == resultImageData = Null \/ styleColorPalette = Null \/ isLoading
\* handleUpscale without the busy check
UpscaleBlockedIgnoringBusy == resultImageData = Null

UpscaleBlocked == resultImageData = Null \/ isLoading

\* what line 348 leaves in resultImageData
ResultWhenGenerating(result) == Null

handleGenerate ==
  IF GenerateBlocked
    THEN /\ event' = Ev("handleGenerate", NoAlert)
         /\ UNCHANGED <<app, dom, reads, extractions, requests>>
    ELSE /\ isLoading' = TRUE
         /\ dom' = setLoading(dom, TRUE, "Generating...", contentImage, styleImage,
                              resultImageData, styleColorPalette)
         /\ resultImageData' = ResultWhenGenerating(resultImageData)
         /\ requests' = requests (+) SetToBag({
              Request("generate", <<contentImage, styleImage>>,
                      GeneratePrompt(selectedEnhancer, selectedAspectRatio,
                                     ParseInt(dom.strengthSlider)),
                      resultImageData)})
         /\ event' = Ev("handleGenerate", NoAlert)
         /\ UNCHANGED <<contentImage, styleImage, styleColorPalette,
                        selectedEnhancer, selectedAspectRatio, reads, extractions>>

handleApplyColor ==
  IF ApplyColorBlocked
    THEN /\ event' = Ev("handleApplyColor", NoAlert)
         /\ UNCHANGED <<app, dom, reads, extractions, requests>>
    ELSE /\ isLoading' = TRUE
         /\ dom' = setLoading(dom, TRUE, "Applying Colors...", contentImage, styleImage,
                              resultImageData, styleColorPalette)
         /\ requests' = requests (+) SetToBag({
              Request("applyColor", <<resultImageData>>,
                      ApplyColorPrompt(styleColorPalette,
                                       ParseInt(dom.colorIntensitySlider)),
                      resultImageData)})
         /\ event' = Ev("handleApplyColor", NoAlert)
         /\ UNCHANGED <<contentImage, styleImage, resultImageData, styleColorPalette,
                        selectedEnhancer, selectedAspectRatio, reads, extractions>>

handleUpscale ==
  IF UpscaleBlocked
    THEN /\ event' = Ev("handleUpscale", NoAlert)
         /\ UNCHANGED <<app, dom, reads, extractions, requests>>
    ELSE /\ isLoading' = TRUE
         /\ dom' = setLoading(dom, TRUE, "Upscaling...", contentImage, styleImage,
                              resultImageData, styleColorPalette)
         /\ requests' = requests (+) SetToBag({
              Request("upscale", <<resultImageData>>, UpscalePrompt, resultImageData)})
         /\ event' = Ev("handleUpscale", NoAlert)
         /\ UNCHANGED <<contentImage, styleImage, resultImageData, styleColorPalette,
                        selectedEnhancer, selectedAspectRatio, reads, extractions>>

(***************************************************************************)
(* The continuations after generateContent settles.  image is what the     *)
(* loop over the response's parts found, Null when the call rejected or    *)
(* the loop found nothing; message is then the error's message.            *)
(***************************************************************************)
ReceivedImage(response) == FindImage(FirstCandidateParts(response), 1)

\* the try block's writes on success, the catch block's on failure
ShowReceived(d, image) ==
  [d EXCEPT !.resultImageSrc = DataUrl(image), !.resultImageDisplay = "block"]

\* a failure path that drops the result
ResultAfterSettledDropping(image, result) == image

\* resultImageData after the try block: written only when the loop found an image
ResultAfterSettled(image, result) == IF image # Null THEN image ELSE result

\* a finally block that leaves the busy flag set
LoadingAfterSettledStuck == TRUE

\* isLoading after the finally block
LoadingAfterSettled == FALSE

handleGenerateResumed(req, image, message) ==
  LET result == ResultAfterSettled(image, resultImageData)
      d1 == IF image # Null
              THEN ShowReceived(dom, image)
              ELSE [dom EXCEPT !.resultPlaceholderDisplay = "flex"]
      d2 == setLoading(d1, LoadingAfterSettled, DefaultMessage, contentImage,
                       styleImage, result, styleColorPalette)
  IN  /\ req.op = "generate"
      /\ requests' = requests (-) SetToBag({req})
      /\ resultImageData' = result
      /\ isLoading' = LoadingAfterSettled
      /\ dom' = updateColorSectionVisibility(d2, result, styleColorPalette)
      /\ event' = Ev("handleGenerateResumed",
                     IF image # Null THEN NoAlert ELSE message)
      /\ UNCHANGED <<contentImage, styleImage, styleColorPalette,
                     selectedEnhancer, selectedAspectRatio, reads, extractions>>

handleApplyColorResumed(req, image, message) ==
  LET result == ResultAfterSettled(image, resultImageData)
      d1 == IF image # Null
              THEN ShowReceived(dom, image)
              ELSE [dom EXCEPT !.resultImageDisplay = "block"]
  IN  /\ req.op = "applyColor"
      /\ requests' = requests (-) SetToBag({req})
      /\ resultImageData' = result
      /\ isLoading' = LoadingAfterSettled
      /\ dom' = setLoading(d1, LoadingAfterSettled, DefaultMessage, contentImage,
                           styleImage, result, styleColorPalette)
      /\ event' = Ev("handleApplyColorResumed",
                     IF image # Null THEN NoAlert ELSE message)
      /\ UNCHANGED <<contentImage, styleImage, styleColorPalette,
                     selectedEnhancer, selectedAspectRatio, reads, extractions>>

handleUpscaleResumed(req, image, message) ==
  LET result == ResultAfterSettled(image, resultImageData)
      d1 == IF image # Null
              THEN ShowReceived(dom, image)
              ELSE [dom EXCEPT !.resultImageDisplay = "block"]
  IN  /\ req.op = "upscale"
      /\ requests' = requests (-) SetToBag({req})
      /\ resultImageData' = result
      /\ isLoading' = LoadingAfterSettled
      /\ dom' = setLoading(d1, LoadingAfterSettled, DefaultMessage, contentImage,
                           styleImage, result, styleColorPalette)
      /\ event' = Ev("handleUpscaleResumed",
                     IF image # Null THEN NoAlert ELSE message)
      /\ UNCHANGED <<contentImage, styleImage, styleColorPalette,
                     selectedEnhancer, selectedAspectRatio, reads, extractions>>

NoImageMessage(op) ==
  CASE op = "generate" -> "An error occurred: API response did not contain an image."
    [] op = "applyColor" ->
         "An error occurred during color application: API response did not contain a color-adjusted image."
    [] OTHER ->
         "An error occurred during upscaling: API response did not contain an upscaled image."

RejectedMessage(op) ==
  CASE op = "generate" -> "An error occurred: request failed"
    [] op = "applyColor" -> "An error occurred during color application: request failed"
    [] OTHER -> "An error occurred during upscaling: request failed"

Resumed(req, image, message) ==
  \/ handleGenerateResumed(req, image, message)
  \/ handleApplyColorResumed(req, image, message)
  \/ handleUpscaleResumed(req, image, message)

\* the promise of generateContent resolves with a response
generateContentResolved(req, response) ==
  Resumed(req, ReceivedImage(response), NoImageMessage(req.op))

\* the promise of generateContent rejects
generateContentRejected(req) ==
  Resumed(req, Null, RejectedMessage(req.op))

(***************************************************************************)
(* handleSave writes nothing the module or the page keeps.                 *)
(***************************************************************************)
handleSave == UNCHANGED vars

(***************************************************************************)
(* The event loop.                                                         *)
(***************************************************************************)
Settle ==
  \/ \E req \in BagToSet(requests) : \E response \in Responses :
       generateContentResolved(req, response) /\ UNCHANGED canvas
  \/ \E req \in BagToSet(requests) :
       generateContentRejected(req) /\ UNCHANGED canvas

Next ==
  \/ \E type \in {"content", "style"} : \E file \in FilesFor(type) :
       processFile(file, type) /\ UNCHANGED canvas
  \/ \E rd \in BagToSet(reads) : processFileLoaded(rd) /\ UNCHANGED canvas
  \/ \E rd \in BagToSet(reads) : processFileError(rd) /\ UNCHANGED canvas
  \/ \E imageData \in BagToSet(extractions) :
       extractionResolved(imageData) /\ UNCHANGED canvas
  \/ \E imageData \in BagToSet(extractions) :
       extractionRejected(imageData) /\ UNCHANGED canvas
  \/ \E type \in {"content", "style"} : clearImage(type) /\ UNCHANGED canvas
  \/ handleClearAll /\ UNCHANGED canvas
  \/ handleGenerate /\ UNCHANGED canvas
  \/ handleApplyColor /\ UNCHANGED canvas
  \/ handleUpscale /\ UNCHANGED canvas
  \/ Settle
  \/ handleSave
  \/ \E value \in SliderChoices : strengthSliderInput(value) /\ UNCHANGED canvas
  \/ \E value \in SliderChoices :
       colorIntensitySliderInput(value) /\ UNCHANGED canvas
  \/ \E value \in EnhancerChoices : enhancerSelectChange(value) /\ UNCHANGED canvas
  \/ \E value \in AspectRatioChoices :
       aspectRatioSelectChange(value) /\ UNCHANGED canvas

Spec == Init /\ [][Next]_vars

\* every outstanding remote call settles
FairSpec == Spec /\ WF_vars(Settle)

(***************************************************************************)
(* The page with its option controls in use: every control has a value     *)
(* besides its default, one file is offered to each slot and the remote    *)
(* service answers with an image, with nothing, or not at all.             *)
(***************************************************************************)
EnhancerOptions    == {"", "Ghibli"}
AspectRatioOptions == {"9:16", "1:1"}
SliderOptions      == {"50", "80"}

OptionFiles(type) == IF type = "content" THEN {fileB} ELSE {fileA}
OptionResponses   == {<<>>, << <<Image1>> >>}

\* the listeners the user can trigger; a file is picked when no other is being
\* read or decoded
UserStep ==
  \/ \E type \in {"content", "style"} : \E file \in OptionFiles(type) :
       Pending = 0 /\ processFile(file, type) /\ UNCHANGED canvas
  \/ \E type \in {"content", "style"} : clearImage(type) /\ UNCHANGED canvas
  \/ handleClearAll /\ UNCHANGED canvas
  \/ handleGenerate /\ UNCHANGED canvas
  \/ handleApplyColor /\ UNCHANGED canvas
  \/ \E value \in SliderOptions : strengthSliderInput(value) /\ UNCHANGED canvas
  \/ \E value \in SliderOptions :
       colorIntensitySliderInput(value) /\ UNCHANGED canvas
  \/ \E value \in EnhancerOptions : enhancerSelectChange(value) /\ UNCHANGED canvas
  \/ \E value \in AspectRatioOptions :
       aspectRatioSelectChange(value) /\ UNCHANGED canvas

\* the continuations the event loop runs when a promise settles
PromiseStep ==
  \/ \E rd \in BagToSet(reads) : processFileLoaded(rd) /\ UNCHANGED canvas
  \/ \E imageData \in BagToSet(extractions) :
       extractionResolved(imageData) /\ UNCHANGED canvas
  \/ \E req \in BagToSet(requests) : \E response \in OptionResponses :
       generateContentResolved(req, response) /\ UNCHANGED canvas
  \/ \E req \in BagToSet(requests) :
       generateContentRejected(req) /\ UNCHANGED canvas

OptionsNext ==
  \/ UserStep
  \/ PromiseStep

OptionsSpec == Init /\ [][OptionsNext]_vars

(***************************************************************************)
(* The extractor on its own: img.onload of extractDominantColors on a      *)
(* decoded buffer, for the buffers and arguments below.  The page is left  *)
(* as it is after construction.                                            *)
(***************************************************************************)
ClayB  == <<201, 101, 51, 255>>    \* in the bucket of Clay
Ink    == <<15, 0, 16, 255>>       \* channels below 16, and a channel at a bucket's edge
Faint  == <<0, 255, 0, 124>>       \* alpha just under the threshold
Veiled == <<0, 255, 0, 125>>       \* alpha at the threshold

PixelChoices == {Red, Blue, Clay, ClayB, Ink, Faint, Veiled}

\* ImageData.data of a row of pixels
RECURSIVE Flatten(_)
Flatten(pixels) ==
  IF pixels = <<>> THEN <<>> ELSE Head(pixels) \o Flatten(Tail(pixels))

Buffers ==
  {Flatten(pixels) : pixels \in UNION {[1..n -> PixelChoices] : n \in 1..MaxPixels}}

\* a solid red image of 100 x 100 pixels
SolidRed100 == [i \in 1..(100 * 100 * 4) |-> Red[((i - 1) % 4) + 1]]

ColorCounts == (1..MaxColorCount) \cup {DefaultColorCount}
Qualities   == (1..MaxQuality) \cup {DefaultQuality}

\* img.onload has reached the loop: let i = 0, colorMap = {}
Loaded(data, colorCount, quality) ==
  Canvas("scanning", data, colorCount, quality, 0, <<>>, <<>>, <<>>)

ExtractInit ==
  /\ PageInit(TRUE)
  /\ \/ \E data \in Buffers : \E colorCount \in ColorCounts : \E quality \in Qualities :
          canvas = Loaded(data, colorCount, quality)
     \/ canvas = Loaded(SolidRed100, DefaultColorCount, DefaultQuality)

\* one iteration of the scan loop
scanPixel ==
  /\ canvas.pc = "scanning"
  /\ InBuffer(canvas.data, canvas.i)
  /\ canvas' = [canvas EXCEPT
                  !.i = NextOffset(canvas.i, canvas.quality),
                  !.sampled = Append(canvas.sampled, canvas.i),
                  !.colorMap = AddSample(canvas.colorMap, canvas.data, canvas.i)]
  /\ UNCHANGED page

\* the loop ends: sort, slice, map and resolve(dominantColors)
resolvePalette ==
  /\ canvas.pc = "scanning"
  /\ ~InBuffer(canvas.data, canvas.i)
  /\ canvas' = [canvas EXCEPT
                  !.pc = "resolved",
                  !.dominantColors = PaletteOf(canvas.colorMap, canvas.colorCount)]
  /\ UNCHANGED page

ExtractNext ==
  \/ scanPixel
  \/ resolvePalette

ExtractSpec == ExtractInit /\ [][ExtractNext]_vars

(***************************************************************************)
(* Properties.                                                             *)
(***************************************************************************)
ResumedSteps ==
  {"handleGenerateResumed", "handleApplyColorResumed", "handleUpscaleResumed"}

ColorSectionHidden == dom.colorSectionDisplay # "block"

\* C1: in every reachable state at most one remote generate/upscale/recolor
\* request is outstanding.
C1_AtMostOneRequest == BagCardinality(requests) <= 1

\* a click on upscale arrived while a generate call was outstanding
C1_Witness ==
  /\ event.step = "handleUpscale"
  /\ \E req \in BagToSet(requests) : req.op = "generate"
  /\ BagCardinality(requests) = 1

\* C2: every remote call that settles (with an image, with a rejection, or with
\* a response without image) leaves isLoading = FALSE, and, every outstanding
\* call settling eventually, isLoading = TRUE leads to isLoading = FALSE.
C2_BusyFlagReleased ==
  /\ [][(event'.step \in ResumedSteps /\ requests' # requests) => ~isLoading']_vars
  /\ isLoading ~> ~isLoading

\* an upscale call has just failed and the busy flag is down
C2_Witness ==
  /\ event.step = "handleUpscaleResumed"
  /\ event.alert # NoAlert
  /\ ~isLoading
  /\ requests = EmptyBag

\* C3: styleColorPalette is null or the palette extracted from the image now
\* held in styleImage.
C3_PaletteOfCurrentStyle ==
  \/ styleColorPalette = Null
  \/ /\ styleImage # Null
     /\ Decodes(styleImage)
     /\ styleColorPalette = extractDominantColors(styleImage)

\* C4: styleImage = null implies styleColorPalette = null and a hidden color
\* section.
C4_NoStyleNoPalette ==
  styleImage = Null => (styleColorPalette = Null /\ ColorSectionHidden)

\* C5: when the extraction for the style image now selected has failed, the
\* style image and its preview are that image, styleColorPalette is null and
\* the color section is hidden.
C5_FailedExtractionLeavesNoPalette ==
  (/\ event.step = "extractionRejected"
   /\ styleImage # Null
   /\ ~Decodes(styleImage))
  => /\ dom.stylePreviewSrc = DataUrl(styleImage)
     /\ styleColorPalette = Null
     /\ ColorSectionHidden

\* the step is the failure path of an upscale or recolor call req
RecolorOrUpscaleFailed(req) ==
  /\ req.op \in {"upscale", "applyColor"}
  /\ event'.step \in {"handleUpscaleResumed", "handleApplyColorResumed"}
  /\ event'.alert # NoAlert
  /\ requests' = requests (-) SetToBag({req})

C7_GenerateFailureKeepsPriorResult ==
  [][\A req \in BagToSet(requests) :
       (/\ req.op = "generate"
        /\ req.before # Null
        /\ event'.step = "handleGenerateResumed"
        /\ event'.alert # NoAlert
        /\ requests' = requests (-) SetToBag({req}))
       => resultImageData' = req.before]_vars

\* C8: handleGenerate, handleUpscale or handleApplyColor invoked while isLoading
\* is true issues no request and changes neither the images, the palette, the
\* busy flag nor the page.
C8_BusyInvocationIsNoOp ==
  [][(isLoading /\ (handleGenerate \/ handleApplyColor \/ handleUpscale))
       => UNCHANGED <<app, dom, reads, extractions, requests>>]_vars

\* upscale was clicked while a generate call was outstanding
C8_Witness ==
  /\ isLoading
  /\ event.step = "handleUpscale"
  /\ \E req \in BagToSet(requests) : req.op = "generate"

\* the first part with inline data of the first candidate, as a set of indexes
FirstInlineParts(response) ==
  IF Len(response) = 0 THEN {}
  ELSE {k \in 1..Len(response[1]) :
          /\ "inlineData" \in DOMAIN response[1][k]
          /\ \A j \in 1..(k - 1) : "inlineData" \notin DOMAIN response[1][j]}

\* C9: for every response, resultImageData becomes the {data, mimeType} of the
\* first part of the first candidate that carries inline data; without such a
\* part the call fails (an alert) and resultImageData is not set.
C9_FirstInlinePartIsResult ==
  [][\A req \in BagToSet(requests) : \A response \in Responses :
       generateContentResolved(req, response) =>
         IF FirstInlineParts(response) = {}
           THEN resultImageData' = resultImageData /\ event'.alert # NoAlert
           ELSE \A k \in FirstInlineParts(response) :
                  /\ resultImageData' =
                       [base64 |-> response[1][k].inlineData.data,
                        mimeType |-> response[1][k].inlineData.mimeType]
                  /\ event'.alert = NoAlert]_vars

\* an upscale call has resolved and replaced the first result by the second
C9_Witness ==
  /\ event.step = "handleUpscaleResumed"
  /\ event.alert = NoAlert
  /\ resultImageData = [base64 |-> "GGG2", mimeType |-> MimeJpeg]
  /\ dom.resultImageSrc = DataUrl(resultImageData)

\* C10: selecting a file whose declared type does not begin with "image/", for
\* either slot, changes no image, palette, result or flag and starts no read
\* and no extraction.
C10_NonImageFileChangesNothing ==
  [][\A type \in {"content", "style"} : \A file \in FilesFor(type) :
       (~StartsWith(file.type, ImagePrefix) /\ processFile(file, type))
         => UNCHANGED <<app, dom, reads, extractions, requests>>]_vars

\* a text file was selected while a style image was set
C10_Witness ==
  /\ event.step = "processFile"
  /\ event.alert = "Please select a valid image file."
  /\ styleImage # Null

(***************************************************************************)
(* Properties of the extractor, stated on the buffer and not on the loop.  *)
(***************************************************************************)
Min(a, b) == IF a <= b THEN a ELSE b

Resolved == canvas.pc = "resolved"

\* the buffer as pixels, numbered from 0 in scan order
PixelCount(data) == Len(data) \div 4
PixelAt(data, p) == SubSeq(data, 4 * p + 1, 4 * p + 4)

\* the pixels at linear indices 0, q, 2q, ... below the pixel count
EveryQth(data, q) == {p \in 0..(PixelCount(data) - 1) : p % q = 0}

\* those of them with alpha >= 125
Retained(data, q) == {p \in EveryQth(data, q) : PixelAt(data, p)[4] >= 125}

\* the multiple of 32 nearest to a channel value, halves going up
Quantized(c) == CHOOSE j \in 0..8 : 32 * j - 16 <= c /\ c < 32 * j + 16
BucketOf(pixel) == <<Quantized(pixel[1]), Quantized(pixel[2]), Quantized(pixel[3])>>

\* the distinct buckets hit by the retained pixels
BucketsHit(data, q) == {BucketOf(PixelAt(data, p)) : p \in Retained(data, q)}

\* C11: the palette has exactly min(colorCount, number of distinct buckets hit by
\* the sampled pixels with alpha >= 125) colors: never padded, never longer than
\* colorCount.
C11_PaletteLength ==
  Resolved =>
    Len(canvas.dominantColors) =
      Min(canvas.colorCount, Cardinality(BucketsHit(canvas.data, canvas.quality)))

\* a palette cut to colorCount: more buckets were hit than colors were asked for
C11_Witness ==
  /\ Resolved
  /\ Cardinality(BucketsHit(canvas.data, canvas.quality)) > canvas.colorCount
  /\ Len(canvas.dominantColors) = canvas.colorCount

\* whether pixel p is a retained pixel of this bucket
InBucket(data, q, bucket, p) ==
  /\ p % q = 0
  /\ PixelAt(data, p)[4] >= 125
  /\ BucketOf(PixelAt(data, p)) = bucket

\* the number of retained pixels of a bucket
HitCount(data, q, bucket) ==
  Cardinality({p \in 0..(PixelCount(data) - 1) : InBucket(data, q, bucket, p)})

\* the sum of channel c over the retained pixels lo..hi of a bucket
RECURSIVE ChannelSum(_, _, _, _, _, _)
ChannelSum(data, q, bucket, c, lo, hi) ==
  IF lo > hi THEN 0
  ELSE IF lo = hi
         THEN IF InBucket(data, q, bucket, lo) THEN PixelAt(data, lo)[c] ELSE 0
         ELSE LET mid == (lo + hi) \div 2
              IN  ChannelSum(data, q, bucket, c, lo, mid)
                    + ChannelSum(data, q, bucket, c, mid + 1, hi)

\* the integer nearest to the mean of channel c in a bucket, halves going up
MeanChannel(data, q, bucket, c) ==
  LET sum == ChannelSum(data, q, bucket, c, 0, PixelCount(data) - 1)
      n == HitCount(data, q, bucket)
  IN  CHOOSE m \in 0..255 : 2 * n * m <= 2 * sum + n /\ 2 * sum + n < 2 * n * (m + 1)

\* two lowercase hex digits of a value in 0..255
Hex2(v) == <<HexDigits[(v \div 16) + 1], HexDigits[(v % 16) + 1]>>

\* '#rrggbb' of the mean color of a bucket
MeanColor(data, q, bucket) ==
  <<"#">> \o Hex2(MeanChannel(data, q, bucket, 1))
          \o Hex2(MeanChannel(data, q, bucket, 2))
          \o Hex2(MeanChannel(data, q, bucket, 3))

\* C12: the palette is ordered by descending bucket count: every color is the mean
\* of a bucket whose count is at least the count of the next color's bucket, and
\* the first color's bucket has the maximum count among all buckets.
C12_DescendingCounts ==
  Resolved =>
    LET data == canvas.data
        q == canvas.quality
        palette == canvas.dominantColors
        hit == BucketsHit(data, q)
    IN  \A k \in 1..Len(palette) :
          \E bucket \in hit :
            /\ MeanColor(data, q, bucket) = palette[k]
            /\ k = 1 =>
                 \A other \in hit : HitCount(data, q, bucket) >= HitCount(data, q, other)
            /\ k < Len(palette) =>
                 \E next \in hit :
                   /\ MeanColor(data, q, next) = palette[k + 1]
                   /\ HitCount(data, q, bucket) >= HitCount(data, q, next)

\* the bucket found first by the scan is not the most frequent one and comes
\* second in the palette
C12_Witness ==
  /\ Resolved
  /\ Len(canvas.dominantColors) >= 2
  /\ PixelAt(canvas.data, 0)[4] >= 125
  /\ MeanColor(canvas.data, canvas.quality, BucketOf(PixelAt(canvas.data, 0)))
       = canvas.dominantColors[2]

\* the samples counted in the buckets of a colorMap
RECURSIVE TotalCount(_)
TotalCount(colorMap) ==
  IF colorMap = <<>> THEN 0 ELSE Head(colorMap).count + TotalCount(Tail(colorMap))

AllBelowThreshold(data) ==
  \A p \in 0..(PixelCount(data) - 1) : PixelAt(data, p)[4] < 125

\* C13: a buffer whose pixels all have alpha < 125 gives the empty palette, and
\* a sampled pixel with alpha >= 125 (125 included) is never discarded: every one
\* of them is counted in a bucket, so the palette is not empty when there is one.
C13_AlphaThreshold ==
  Resolved =>
    /\ AllBelowThreshold(canvas.data) => canvas.dominantColors = <<>>
    /\ TotalCount(canvas.colorMap) = Cardinality(Retained(canvas.data, canvas.quality))
    /\ Retained(canvas.data, canvas.quality) # {} => canvas.dominantColors # <<>>

\* the only retained pixel has alpha exactly 125, next to a sampled pixel with
\* alpha 124
C13_Witness ==
  /\ Resolved
  /\ \E p \in EveryQth(canvas.data, canvas.quality) : PixelAt(canvas.data, p)[4] = 124
  /\ \A p \in Retained(canvas.data, canvas.quality) : PixelAt(canvas.data, p)[4] = 125
  /\ Len(canvas.dominantColors) = 1

\* one opaque color in every pixel
Uniform(data) ==
  /\ PixelAt(data, 0)[4] = 255
  /\ \A p \in 0..(PixelCount(data) - 1) : PixelAt(data, p) = PixelAt(data, 0)

\* the lowercase zero-padded hex of the opaque pixels of the model, written out
LowerHex(pixel) ==
  CASE pixel = Red   -> <<"#", "f", "f", "0", "0", "0", "0">>
    [] pixel = Blue  -> <<"#", "0", "0", "0", "0", "f", "f">>
    [] pixel = Clay  -> <<"#", "c", "8", "6", "4", "3", "2">>
    [] pixel = ClayB -> <<"#", "c", "9", "6", "5", "3", "3">>
    [] pixel = Ink   -> <<"#", "0", "f", "0", "0", "1", "0">>

\* C14: a buffer of one uniform opaque color, of any size, gives exactly one
\* color, the lowercase zero-padded hex of (R,G,B): (200,100,50) with quality 1
\* gives #c86432, and solid red 100 x 100 with the defaults gives #ff0000.
C14_UniformColor ==
  Resolved =>
    /\ Uniform(canvas.data) =>
         canvas.dominantColors = <<LowerHex(PixelAt(canvas.data, 0))>>
    /\ (Uniform(canvas.data) /\ PixelAt(canvas.data, 0) = Clay /\ canvas.quality = 1) =>
         canvas.dominantColors = << <<"#", "c", "8", "6", "4", "3", "2">> >>
    /\ (canvas.data = SolidRed100 /\ canvas.colorCount = DefaultColorCount
          /\ canvas.quality = DefaultQuality) =>
         canvas.dominantColors = << <<"#", "f", "f", "0", "0", "0", "0">> >>

\* a buffer of several pixels, all (200,100,50,255), has been scanned with
\* quality 1
C14_Witness ==
  /\ Resolved
  /\ Uniform(canvas.data)
  /\ PixelAt(canvas.data, 0) = Clay
  /\ PixelCount(canvas.data) >= 2
  /\ canvas.quality = 1
  /\ Len(canvas.sampled) = PixelCount(canvas.data)
  /\ Len(canvas.dominantColors) = 1

LowerHexDigits ==
  {"0", "1", "2", "3", "4", "5", "6", "7", "8", "9", "a", "b", "c", "d", "e", "f"}

\* the integer nearest to sum / count, halves going up, is in 0..255
RoundedMeanInByte(sum, count) ==
  \E m \in 0..255 :
    2 * count * m <= 2 * sum + count /\ 2 * sum + count < 2 * count * (m + 1)

\* C15: for every bucket produced during the extraction the rounded mean of each
\* channel is in [0,255], and so every returned string is '#' followed by
\* exactly six hex digits.
C15_ByteMeansSixDigits ==
  /\ \A k \in 1..Len(canvas.colorMap) : \A c \in 1..3 :
       RoundedMeanInByte(canvas.colorMap[k].color[c], canvas.colorMap[k].count)
  /\ Resolved =>
       \A k \in 1..Len(canvas.dominantColors) :
         LET color == canvas.dominantColors[k]
         IN  /\ Len(color) = 7
             /\ color[1] = "#"
             /\ \A j \in 2..7 : color[j] \in LowerHexDigits

\* a bucket of two samples whose red mean is a half, in the palette
C15_Witness ==
  /\ Resolved
  /\ canvas.colorCount >= Len(canvas.colorMap)
  /\ \E k \in 1..Len(canvas.colorMap) :
       /\ canvas.colorMap[k].count = 2
       /\ canvas.colorMap[k].color[1] % 2 = 1

\* the pixels the loop body has run for, by linear index
SampledPixels == {canvas.sampled[j] \div 4 : j \in 1..Len(canvas.sampled)}

\* C16: with quality q the extractor samples exactly the pixels at linear indices
\* 0, q, 2q, ... below the pixel count, each once and in this order; so a run
\* with quality q scans no more samples than a run on the same buffer with any
\* smaller quality.
C16_EveryQthPixelSampled ==
  /\ canvas.sampled # <<>> =>
       LET j == Len(canvas.sampled)      \* the sample just taken
       IN  /\ canvas.sampled[j] = 4 * (canvas.quality * (j - 1))
           /\ canvas.quality * (j - 1) < PixelCount(canvas.data)
  /\ Resolved =>
       /\ \A j \in 1..Len(canvas.sampled) :
            canvas.sampled[j] = 4 * (canvas.quality * (j - 1))
       /\ SampledPixels = EveryQth(canvas.data, canvas.quality)
       /\ \A q1 \in Qualities :
            q1 <= canvas.quality =>
              Len(canvas.sampled) <= Cardinality(EveryQth(canvas.data, q1))

\* three pixels scanned with quality 2: pixels 0 and 2 sampled, pixel 1 skipped
C16_Witness ==
  /\ Resolved
  /\ canvas.quality = 2
  /\ PixelCount(canvas.data) = 3
  /\ canvas.sampled = <<0, 8>>

(***************************************************************************)
(* Properties of the page, continued.                                      *)
(***************************************************************************)
\* C17: once an input has been cleared the result is null and stays null until a
\* generate is started after the clear, whatever call was in flight.  A generate
\* can only start with both inputs present, and an input is null only at the
\* start or after a clear; so while an input is null there is no result.
C17_NoInputNoResult ==
  (contentImage = Null \/ styleImage = Null) => resultImageData = Null

\* a step in which an outstanding remote call settles
Completion ==
  \E req \in BagToSet(requests) : requests' = requests (-) SetToBag({req})

\* C18: a remote request that never completes leaves the page busy: isLoading is
\* true while the call is outstanding, the only step that takes isLoading from
\* true to false is the completion of that call, every other step (clears, file
\* selection, option changes) leaves it true, and generate, upscale and
\* apply-color change nothing while it is true.
C18_BusyUntilCompletion ==
  /\ [](requests # EmptyBag => isLoading)
  /\ [][/\ (isLoading /\ ~isLoading') => Completion
        /\ (isLoading /\ ~Completion) => (isLoading' /\ requests' = requests)
        /\ (isLoading /\ (handleGenerate \/ handleApplyColor \/ handleUpscale))
             => (~Completion /\ UNCHANGED <<app, dom>>)]_vars

\* the user has cleared everything while the call hangs, and the page is busy
C18_Witness ==
  /\ isLoading
  /\ requests # EmptyBag
  /\ event.step = "handleClearAll"
  /\ dom.loaderDisplay = "flex"

\* C20: whenever no remote call is in flight (isLoading = false) the color
\* section is visible if and only if there is a result and a palette.
C20_ColorSectionIffResultAndPalette ==
  ~isLoading =>
    (dom.colorSectionDisplay = "block"
       <=> (resultImageData # Null /\ styleColorPalette # Null))

\* the module variables as their initialisers leave them
DefaultApp == <<Null, Null, Null, Null, FALSE, "", "9:16">>

\* no file read, extraction or remote call is pending
Quiet == reads = EmptyBag /\ extractions = EmptyBag /\ requests = EmptyBag

\* C19: handleClearAll resets the application: right after it both inputs, the
\* result and the palette are null, the enhancer is '', the aspect ratio is
\* '9:16', both sliders read 50, the color section is hidden and the
\* placeholder is shown; when nothing is pending the module variables then equal
\* their initial values, and they keep them until the user acts again.
C19_ClearAllResets ==
  [][/\ handleClearAll =>
          /\ contentImage' = Null /\ styleImage' = Null
          /\ resultImageData' = Null /\ styleColorPalette' = Null
          /\ selectedEnhancer' = "" /\ selectedAspectRatio' = "9:16"
          /\ dom'.strengthSlider = "50" /\ dom'.strengthValue = <<"50", "%">>
          /\ dom'.colorIntensitySlider = "50"
          /\ dom'.colorIntensityValue = <<"50", "%">>
          /\ dom'.colorSectionDisplay = "none"
          /\ dom'.resultImageDisplay = "none"
          /\ dom'.resultPlaceholderDisplay = "flex"
          /\ Quiet' => app' = DefaultApp
     /\ (Quiet /\ app = DefaultApp /\ ~UserStep) => app' = DefaultApp]_vars

\* everything has been cleared after a remote call completed, nothing is
\* pending, and the module variables are back at their initial values
C19_Witness ==
  /\ event.step = "handleClearAll"
  /\ Quiet
  /\ app = DefaultApp
  /\ dom.loaderDisplay = "none"
  /\ dom.resultImageDisplay = "none"
  /\ dom.strengthSlider = "50"

\* an inline display style that shows the element, and one the script has set
Displayed(display) == display \in {"block", "flex"}
Written(display) == display # Unset

\* C21: while isLoading the loader is shown and neither the result image nor the
\* placeholder is; when isLoading is false, after the first user action (and once
\* the script has set both display styles), exactly one of the two is
\* displayed, the image if and only if resultImageData is not null.  Clears may
\* interleave with calls in flight.
C21_ImageXorPlaceholder ==
  /\ isLoading =>
       /\ dom.loaderDisplay = "flex"
       /\ ~Displayed(dom.resultImageDisplay)
       /\ ~Displayed(dom.resultPlaceholderDisplay)
  /\ (/\ ~isLoading
      /\ event.step # "DOMContentLoaded"
      /\ Written(dom.resultImageDisplay)
      /\ Written(dom.resultPlaceholderDisplay)) =>
       /\ Displayed(dom.resultImageDisplay) # Displayed(dom.resultPlaceholderDisplay)
       /\ Displayed(dom.resultImageDisplay) <=> resultImageData # Null

\* each button's disabled flag equals its predicate over the current state
ButtonsMatch ==
  /\ dom.generateBtnDisabled <=> (contentImage = Null \/ styleImage = Null \/ isLoading)
  /\ dom.upscaleBtnDisabled <=> (resultImageData = Null \/ isLoading)
  /\ dom.saveBtnDisabled <=> (resultImageData = Null \/ isLoading)
  /\ dom.applyColorBtnDisabled <=>
       (resultImageData = Null \/ styleColorPalette = Null \/ isLoading)

ButtonInputs ==
  <<contentImage, styleImage, resultImageData, styleColorPalette, isLoading>>

====
